---- MODULE Spec2Model ----
(***************************************************************************)
(* The "Start Import" run of the Parquet to Postgres importer.             *)
(*                                                                         *)
(* Two copies of the importer live in the repository: src/app.py and the   *)
(* app.py text kept in PROJECT_FILES of src/recreate_project.py.  The      *)
(* variable `version` says which copy runs; every action follows the       *)
(* statements of that copy.  One behaviour is one press of the button:     *)
(* parameter check, engine, (extension, probe), open, then the batch loop  *)
(* read -> normalize -> write -> report, ended by st.success or by the     *)
(* except handler.                                                         *)
(***************************************************************************)
EXTENDS Integers, Sequences, FiniteSets, TLC

VARIABLES
    version,          \* "app" (src/app.py) or "recreate" (PROJECT_FILES['app.py'])
    missing,          \* sidebar fields left empty
    if_exists_opt,    \* the "If Table Exists" selectbox
    source_kind,      \* "none", "upload" (file-like, has seek) or "path" (str)
    has_geometry,     \* the file's schema has a column named 'geometry'
    batches,          \* what parquet_file.iter_batches yields, in order
    num_rows,         \* parquet_file.metadata.num_rows
    prior,            \* the destination table as it was before the run
    table_exists,     \* destination table present
    table,            \* destination rows, as a sequence of segments
    postgis,          \* the destination database has the postgis extension
    pc,               \* position of the run in the script
    io,               \* I/O calls made so far
    is_spatial_file,  \* probe result (recreate)
    detected_geometry_col, \* probe result (recreate); "none": not detected
    detected_crs,     \* probe result (recreate)
    seek_calls,       \* source.seek(0) calls made by the probe's handler
    rows_processed,
    total_rows,
    is_first_chunk,
    next_batch,       \* number of batches the iterator has yielded
    df_chunk,         \* index of the batch bound to df_chunk (0: unbound)
    gdf_chunk,        \* index of the batch gdf_chunk was built from (0: unbound)
    chunk_to_write,   \* index of the batch whose rows chunk_to_write holds
    is_spatial,       \* is_spatial / chunk_is_spatial
    chunk_crs,        \* reference system of chunk_to_write ("none" if not spatial)
    decode_fallback,  \* the bare except of the decode (app.py line 96) has run
    writes,           \* log of the to_sql / to_postgis calls
    progress,         \* log of the progress updates
    terminal          \* the terminal message shown to the caller

vars == << version, missing, if_exists_opt, source_kind, has_geometry, batches,
           num_rows, prior, table_exists, table, postgis, pc, io, is_spatial_file,
           detected_geometry_col, detected_crs, seek_calls, rows_processed,
           total_rows, is_first_chunk, next_batch, df_chunk, gdf_chunk,
           chunk_to_write, is_spatial, chunk_crs, decode_fallback, writes,
           progress, terminal >>

----------------------------------------------------------------------------
(* Bounds of the model *)

MaxBatches == 2     \* batches in a source
MaxRows == 1        \* rows in a batch (0..MaxRows)
MaxPrior == 1       \* rows in the destination table before the run

NoRows == 0 - 1     \* "no row count" in a terminal message

----------------------------------------------------------------------------
(* Inputs *)

Versions == {"app", "recreate"}

Params == {"db_host", "db_port", "db_name", "db_user", "db_password", "table_name"}

Policies == {"fail", "replace", "append"}

SourceKinds == {"none", "upload", "path"}

\* Value encoding of the 'geometry' column in one batch, as the code tests it:
\*   "wkb"       dtype object, well-known-binary bytes that decode
\*   "malformed" dtype object, bytes that do not decode
\*   "other"     a dtype that is neither object nor category (nor string)
\*   "none"      the batch has no 'geometry' column
GeomEncodings == {"wkb", "malformed", "other"}

BatchesOf(geom) ==
    IF geom
    THEN {b \in [rows : 0..MaxRows, enc : GeomEncodings] :
              b.rows = 0 => b.enc # "malformed"}
    ELSE [rows : 0..MaxRows, enc : {"none"}]

SourcesOf(geom) == UNION {[1..k -> BatchesOf(geom)] : k \in 0..MaxBatches}

RECURSIVE SumRows(_)
SumRows(s) == IF s = << >> THEN 0 ELSE Head(s).rows + SumRows(Tail(s))

\* the sidebar complete, or one field left empty
MissingSets == {{}} \cup {{p} : p \in Params}

NoTerminal == [kind |-> "none", rows |-> NoRows, exc |-> "none"]

----------------------------------------------------------------------------
(* Init: the sidebar is filled in, a source is chosen, the button not yet pressed *)

PriorTables ==
    {[exists |-> FALSE, rows |-> << >>]} \cup
    {[exists |-> TRUE, rows |-> << [origin |-> "prior", batch |-> 0, rows |-> p] >>] :
         p \in 0..MaxPrior}

Init ==
    /\ version \in Versions
    /\ missing \in MissingSets
    /\ if_exists_opt \in Policies
    /\ source_kind \in SourceKinds
    /\ has_geometry \in BOOLEAN
    /\ batches \in SourcesOf(has_geometry)
    /\ num_rows \in {SumRows(batches), 0}
    /\ prior \in PriorTables
    /\ table_exists = prior.exists
    /\ table = prior.rows
    /\ postgis = FALSE   \* on a database that has the extension the run changes nothing
    /\ pc = "idle"
    /\ io = {}
    /\ is_spatial_file = FALSE
    /\ detected_geometry_col = "none"
    /\ detected_crs = "none"
    /\ seek_calls = 0
    /\ rows_processed = 0
    /\ total_rows = 0
    /\ is_first_chunk = TRUE
    /\ next_batch = 0
    /\ df_chunk = 0
    /\ gdf_chunk = 0
    /\ chunk_to_write = 0
    /\ is_spatial = FALSE
    /\ chunk_crs = "none"
    /\ decode_fallback = FALSE
    /\ writes = << >>
    /\ progress = << >>
    /\ terminal = NoTerminal

inputs == << version, missing, if_exists_opt, source_kind, has_geometry, batches,
            num_rows, prior >>
destination == << table_exists, table >>
probe_vars == << is_spatial_file, detected_geometry_col, detected_crs, seek_calls >>
counters == << rows_processed, total_rows, is_first_chunk >>
loop_vars == << next_batch, df_chunk, gdf_chunk, chunk_to_write, is_spatial, chunk_crs,
               decode_fallback >>
outputs == << writes, progress >>

----------------------------------------------------------------------------
(* The except handler: st.error(f"Error during import: {e}"); st.exception(e). *)
(* The message carries the exception and nothing else.                        *)

ErrorEvent(exc) == [kind |-> "failure", rows |-> NoRows, exc |-> exc]

\* mutant: the exception is swallowed and the loop goes on
AbortSwallowed(exc) ==
    /\ terminal' = terminal
    /\ pc' = "read"

Abort(exc) ==
    /\ terminal' = ErrorEvent(exc)
    /\ pc' = "done"

----------------------------------------------------------------------------
(* if st.button("Start Import"): the parameter check and the source choice *)

RequiredParams(v) ==
    IF v = "app" THEN {"db_name", "db_user"}
    ELSE {"db_name", "db_user", "db_password"}

StartImport ==
    /\ pc = "idle"
    /\ IF RequiredParams(version) \cap missing # {}
       THEN /\ terminal' = [kind |-> "config_error", rows |-> NoRows, exc |-> "none"]
            /\ pc' = "done"
       ELSE IF source_kind = "none"
       THEN /\ terminal' = [kind |-> "no_file", rows |-> NoRows, exc |-> "none"]
            /\ pc' = "done"
       ELSE /\ terminal' = terminal
            /\ pc' = "create_engine"
    /\ UNCHANGED << inputs, destination, postgis, io, probe_vars, counters, loop_vars,
                    outputs >>

\* mutant: the first copy enables the extension as well
AfterCreateEngineExtension(v) == "create_extension"

\* the statement after create_engine: pq.ParquetFile in src/app.py,
\* CREATE EXTENSION in PROJECT_FILES['app.py']
AfterCreateEngine(v) == IF v = "app" THEN "open" ELSE "create_extension"

(* engine = create_engine(db_url) *)
CreateEngine ==
    /\ pc = "create_engine"
    /\ io' = io \cup {"create_engine"}
    /\ \/ /\ pc' = AfterCreateEngine(version)
          /\ terminal' = terminal
       \/ Abort("ArgumentError")
    /\ UNCHANGED << inputs, destination, postgis, probe_vars, counters, loop_vars,
                    outputs >>

(* with engine.connect() as conn: CREATE EXTENSION IF NOT EXISTS postgis *)
CreateExtension ==
    /\ pc = "create_extension"
    /\ io' = io \cup {"db_connect"}
    /\ \/ /\ postgis' = TRUE
          /\ pc' = "probe"
          /\ terminal' = terminal
       \/ /\ Abort("OperationalError")
          /\ postgis' = postgis
    /\ UNCHANGED << inputs, destination, probe_vars, counters, loop_vars, outputs >>

(* PROBE STEP: gpd.read_parquet(source ...) inside its own try / except *)
DetectableCrs == {"none", "EPSG:3857"}

HasSeek(kind) == kind = "upload"

\* probe_gdf.active_geometry_name or 'geometry'.  The batches of the model
\* carry at most the column 'geometry'; a descriptor naming another column
\* ("geom") is a descriptor whose column the batches lack.
DetectableCols(geom) == IF geom THEN {"geometry", "geom"} ELSE {"geom"}

\* source.seek(0) calls the probe makes: in the except branch only
SeeksAfterProbe(failed, kind) == IF failed /\ HasSeek(kind) THEN 1 ELSE 0

ProbeStep ==
    /\ pc = "probe"
    /\ io' = io \cup {"probe_read"}
    /\ \/ \* gpd.read_parquet returns a GeoDataFrame
          /\ is_spatial_file' = TRUE
          /\ detected_geometry_col' \in DetectableCols(has_geometry)
          /\ detected_crs' \in DetectableCrs
          /\ seek_calls' = seek_calls + SeeksAfterProbe(FALSE, source_kind)
          /\ pc' = "open"
          /\ terminal' = terminal
       \/ \* gpd.read_parquet raises; the handler rewinds a source that has seek
          /\ is_spatial_file' = FALSE
          /\ detected_geometry_col' = "none"
          /\ detected_crs' = "none"
          /\ seek_calls' = seek_calls + SeeksAfterProbe(TRUE, source_kind)
          /\ \/ /\ pc' = "open"
                /\ terminal' = terminal
             \/ \* source.seek(0) raises inside the handler: the outer except takes it
                /\ HasSeek(source_kind)
                /\ Abort("SeekError")
    /\ UNCHANGED << inputs, destination, postgis, counters, loop_vars, outputs >>

(* parquet_file = pq.ParquetFile(source); rows_processed = 0;              *)
(* total_rows = parquet_file.metadata.num_rows; is_first_chunk = True      *)
TotalRowsEstimate(v, n) ==
    IF v = "app" THEN n
    ELSE IF n # 0 /\ n > 0 THEN n ELSE 1

OpenSource ==
    /\ pc = "open"
    /\ io' = io \cup {"open_source"}
    /\ \/ /\ rows_processed' = 0
          /\ total_rows' = TotalRowsEstimate(version, num_rows)
          /\ is_first_chunk' = TRUE
          /\ pc' = "read"
          /\ terminal' = terminal
       \/ /\ Abort("ArrowInvalid")
          /\ UNCHANGED counters
    /\ UNCHANGED << inputs, destination, postgis, probe_vars, loop_vars, outputs >>

----------------------------------------------------------------------------
(* for batch in parquet_file.iter_batches(batch_size=batch_size):          *)
(*     df_chunk = batch.to_pandas()                                        *)
(* and, when the iterator is exhausted, st.success(...)                    *)

SuccessEvent(n) == [kind |-> "success", rows |-> n, exc |-> "none"]

ReadBatch ==
    /\ pc = "read"
    /\ IF next_batch < Len(batches)
       THEN /\ io' = io \cup {"read_batch"}
            /\ \/ /\ next_batch' = next_batch + 1
                  /\ df_chunk' = next_batch + 1
                  /\ pc' = "normalize"
                  /\ terminal' = terminal
               \/ /\ Abort("ArrowError")
                  /\ UNCHANGED << next_batch, df_chunk >>
       ELSE /\ terminal' = SuccessEvent(rows_processed)
            /\ pc' = "done"
            /\ UNCHANGED << io, next_batch, df_chunk >>
    /\ UNCHANGED << inputs, destination, postgis, probe_vars, counters, gdf_chunk,
                    chunk_to_write, is_spatial, chunk_crs, decode_fallback, outputs >>

----------------------------------------------------------------------------
(* Geometry detection and decoding of one batch.  The result names the     *)
(* exception raised ("none": no exception), the spatial flag, the batch    *)
(* gdf_chunk is bound to afterwards, the batch chunk_to_write holds and    *)
(* the reference system of the chunk, and whether the decode failure was   *)
(* caught and the fallback constructor tried.                              *)

DefaultCrs == "EPSG:4326"

\* the exception of the WKB decoder (from_wkb) on bytes it cannot read
DecodeError == "WKBReadingError"

Normalized(spatial, gdf, chunk, crs) ==
    [exc |-> "none", spatial |-> spatial, gdf |-> gdf, chunk |-> chunk, crs |-> crs,
     fallback |-> FALSE]

Raised(exc, gdf, chunk) ==
    [exc |-> exc, spatial |-> TRUE, gdf |-> gdf, chunk |-> chunk, crs |-> "none",
     fallback |-> FALSE]

\* try: from_wkb ... except: GeoDataFrame(df_chunk, geometry=geo_col).  The
\* bare except catches the decoder's exception; the constructor then raises
\* TypeError on the bytes, and that is the exception the run reports.
RaisedByFallback(gdf, chunk) == [Raised("TypeError", gdf, chunk) EXCEPT !.fallback = TRUE]

\* src/app.py: gdf_chunk is assigned in the object/category branch only and
\* read right after the if/else, whichever branch ran.
NormalizeApp(b, cur, gdf, chunk) ==
    IF b.enc = "none" THEN Normalized(FALSE, gdf, cur, "none")
    ELSE IF b.enc = "wkb" THEN Normalized(TRUE, cur, cur, DefaultCrs)
    ELSE IF b.enc = "malformed" THEN RaisedByFallback(gdf, chunk)
    ELSE IF gdf = 0 THEN Raised("NameError", gdf, chunk)
    ELSE Normalized(TRUE, gdf, gdf, DefaultCrs)

\* if is_spatial_file and detected_geometry_col in df_chunk.columns
UsesLogic1(b, spatial_file, dcol) == spatial_file /\ dcol = "geometry" /\ b.enc # "none"

\* mutant: the detected reference system is never assigned
CrsOfLogic1Default(dcrs) == DefaultCrs

\* if detected_crs: set_crs(detected_crs, allow_override=True)
\* elif crs is None: set_crs(epsg=4326)
CrsOfLogic1(dcrs) == IF dcrs # "none" THEN dcrs ELSE DefaultCrs

\* mutant: without Logic 2, a batch lacking the probe's column is plain
NormalizeRecreateProbeOnly(b, cur, gdf, spatial_file, dcol, dcrs) ==
    IF UsesLogic1(b, spatial_file, dcol) /\ b.enc = "wkb"
    THEN Normalized(TRUE, cur, cur, CrsOfLogic1(dcrs))
    ELSE Normalized(FALSE, gdf, cur, "none")

\* PROJECT_FILES['app.py']: Logic 1 (the probe's geometry column is in the
\* batch), Logic 2 (elif a column named 'geometry' is), else the chunk is
\* df_chunk.  Logic 2 never reads detected_crs.
NormalizeRecreate(b, cur, gdf, spatial_file, dcol, dcrs) ==
    IF b.enc = "none" THEN Normalized(FALSE, gdf, cur, "none")
    ELSE IF b.enc = "malformed" THEN Raised(DecodeError, gdf, cur)
    ELSE IF b.enc = "other" THEN Raised("TypeError", gdf, cur)
    ELSE IF UsesLogic1(b, spatial_file, dcol)
         THEN Normalized(TRUE, cur, cur, CrsOfLogic1(dcrs))
    ELSE Normalized(TRUE, cur, cur, DefaultCrs)

NormalizeChunk ==
    /\ pc = "normalize"
    /\ LET r == IF version = "app"
                THEN NormalizeApp(batches[df_chunk], df_chunk, gdf_chunk, chunk_to_write)
                ELSE NormalizeRecreate(batches[df_chunk], df_chunk, gdf_chunk,
                                       is_spatial_file, detected_geometry_col,
                                       detected_crs)
       IN /\ is_spatial' = r.spatial
          /\ gdf_chunk' = r.gdf
          /\ chunk_to_write' = r.chunk
          /\ chunk_crs' = r.crs
          /\ decode_fallback' = (decode_fallback \/ r.fallback)
          /\ IF r.exc = "none"
             THEN pc' = "write" /\ terminal' = terminal
             ELSE Abort(r.exc)
    /\ UNCHANGED << inputs, destination, postgis, io, probe_vars, counters, next_batch,
                    df_chunk, outputs >>

----------------------------------------------------------------------------
(* current_if_exists = if_exists_opt if is_first_chunk else 'append'       *)
(* chunk_to_write.to_postgis / to_sql(table_name, engine,                  *)
(*                                   if_exists=current_if_exists, ...)     *)

\* mutant: the configured policy is passed for every chunk
CurrentIfExistsEveryChunk(opt, first) == opt

CurrentIfExists(opt, first) == IF first THEN opt ELSE "append"

\* mutant: 'fail' is treated like 'append'
RaisesTableExistsNever(policy, exists) == FALSE

\* if_exists='fail' on a table that is there raises before anything is written
RaisesTableExists(policy, exists) == policy = "fail" /\ exists

\* mutant: 'replace' keeps the rows of a table that is there
RecreatesMissingOnly(policy, exists) == ~exists

\* 'replace' drops the table; a missing table is created; else rows are added
Recreates(policy, exists) == policy = "replace" \/ ~exists

TableAfterWrite(policy, exists, tbl, seg) ==
    IF Recreates(policy, exists) THEN << seg >> ELSE Append(tbl, seg)

Segment(chunk) == [origin |-> "run", batch |-> chunk, rows |-> batches[chunk].rows]

\* mutant: every chunk goes through the plain write
WritePathPlain(spatial) == "to_sql"

\* if is_spatial: chunk_to_write.to_postgis(...) else: chunk_to_write.to_sql(...)
WritePath(spatial) == IF spatial THEN "to_postgis" ELSE "to_sql"

WriteCall(policy, ok, recreated) ==
    [iter |-> df_chunk, chunk |-> chunk_to_write, rows |-> batches[chunk_to_write].rows,
     if_exists |-> policy, spatial |-> is_spatial, path |-> WritePath(is_spatial),
     crs |-> chunk_crs, ok |-> ok, recreated |-> recreated]

WriteChunk ==
    /\ pc = "write"
    /\ io' = io \cup {"write"}
    /\ LET current_if_exists == CurrentIfExists(if_exists_opt, is_first_chunk)
       IN IF RaisesTableExists(current_if_exists, table_exists)
          THEN /\ writes' = Append(writes, WriteCall(current_if_exists, FALSE, FALSE))
               /\ Abort("ValueError")
               /\ UNCHANGED destination
          ELSE \/ /\ table' = TableAfterWrite(current_if_exists, table_exists, table,
                                              Segment(chunk_to_write))
                  /\ table_exists' = TRUE
                  /\ writes' = Append(writes,
                         WriteCall(current_if_exists, TRUE,
                                   Recreates(current_if_exists, table_exists)))
                  /\ pc' = "report"
                  /\ terminal' = terminal
               \/ \* the destination rejects the chunk; no row of it is kept
                  /\ writes' = Append(writes, WriteCall(current_if_exists, FALSE, FALSE))
                  /\ Abort("WriteError")
                  /\ \/ UNCHANGED destination
                     \/ \* the drop of 'replace' took effect before the failure
                        /\ current_if_exists = "replace"
                        /\ table_exists
                        /\ table_exists' = FALSE
                        /\ table' = << >>
    /\ UNCHANGED << inputs, postgis, probe_vars, counters, loop_vars, progress >>

----------------------------------------------------------------------------
(* rows_processed += len(df_chunk); is_first_chunk = False; progress update *)

BarUpdated(v, total) == IF v = "app" THEN total # 0 ELSE total > 1

ProgressEvent(v, n, total) == [rows |-> n, total |-> total, bar |-> BarUpdated(v, total)]

RowsAfter(n, chunk_rows) == n + chunk_rows

Report ==
    /\ pc = "report"
    /\ rows_processed' = RowsAfter(rows_processed, batches[df_chunk].rows)
    /\ is_first_chunk' = FALSE
    /\ progress' = Append(progress, ProgressEvent(version, rows_processed', total_rows))
    /\ pc' = "read"
    /\ UNCHANGED << inputs, destination, postgis, io, probe_vars, total_rows, loop_vars,
                    writes, terminal >>

----------------------------------------------------------------------------

Next ==
    \/ StartImport
    \/ CreateEngine
    \/ CreateExtension
    \/ ProbeStep
    \/ OpenSource
    \/ ReadBatch
    \/ NormalizeChunk
    \/ WriteChunk
    \/ Report

Spec == Init /\ [][Next]_vars

----------------------------------------------------------------------------
(* Vocabulary of the properties *)

Started == terminal.kind \notin {"config_error", "no_file"}

NumOk(w) == Cardinality({i \in DOMAIN w : w[i].ok})

\* the segments the successful write calls put into the destination
OkSegments(w) ==
    [i \in 1..NumOk(w) |-> [origin |-> "run", batch |-> w[i].chunk, rows |-> w[i].rows]]

IsRunSegment(seg) == seg.origin = "run"

RunPart(t) == SelectSeq(t, IsRunSegment)

TableRows(t) == SumRows(t)

\* rows of the chunks that write calls 1..k put into the destination
RECURSIVE WrittenRows(_, _)
WrittenRows(w, k) ==
    IF k = 0 THEN 0
    ELSE WrittenRows(w, k - 1) + (IF w[k].ok THEN w[k].rows ELSE 0)

----------------------------------------------------------------------------
(* C1: the policy passed to a write is the configured one as long as no    *)
(* chunk of the run has been written, and 'append' for every chunk after   *)
(* that; the first-chunk flag, once false, is never true again.            *)

C1_EffectivePolicy ==
    \A i \in DOMAIN writes :
        writes[i].if_exists =
            IF \E j \in 1..(i - 1) : writes[j].ok THEN "append" ELSE if_exists_opt

C1_FirstChunkOnly ==
    [][C1_EffectivePolicy' /\ (is_first_chunk' => is_first_chunk)]_vars

C1_Witness ==
    /\ if_exists_opt = "replace"
    /\ Len(writes) = 2
    /\ writes[1].if_exists = "replace"
    /\ writes[2].if_exists = "append"
    /\ ~is_first_chunk

----------------------------------------------------------------------------
(* C3 as amended: policy 'fail' on a table that is there writes no row and *)
(* leaves the table as it was; a run over a source of at least one batch   *)
(* ends with the failure message; over a source of no batch no write is    *)
(* attempted and the only success reports 0 rows.                          *)

C3_FailKeepsTable ==
    (if_exists_opt = "fail" /\ prior.exists) =>
        /\ table_exists
        /\ table = prior.rows
        /\ \A i \in DOMAIN writes : ~writes[i].ok
        /\ rows_processed = 0
        /\ progress = << >>
        /\ (pc = "done" /\ Started /\ batches # << >>) => terminal.kind = "failure"
        /\ terminal.kind = "success" => (batches = << >> /\ terminal.rows = 0)
        /\ batches = << >> => writes = << >>

C3_Witness ==
    /\ if_exists_opt = "fail"
    /\ prior.exists
    /\ TableRows(prior.rows) > 0
    /\ Len(writes) = 1
    /\ writes[1].if_exists = "fail"
    /\ terminal = ErrorEvent("ValueError")
    /\ table = prior.rows

\* C3 as stated: for every source, none included, the run never ends with success
C3_Original ==
    (if_exists_opt = "fail" /\ prior.exists) =>
        /\ table = prior.rows
        /\ \A i \in DOMAIN writes : ~writes[i].ok
        /\ terminal.kind # "success"
        /\ (pc = "done" /\ Started) => terminal.kind = "failure"

----------------------------------------------------------------------------
(* C5: under 'replace' the table is dropped / created by the write of      *)
(* chunk 1 and by no later write; after chunk k is written the table holds *)
(* the rows of the chunks written 1..k and nothing else.                   *)

C5_ReplaceOnce ==
    (if_exists_opt = "replace" /\ writes # << >> /\ writes[1].ok) =>
        /\ writes[1].recreated
        /\ \A i \in 2..Len(writes) : ~writes[i].recreated
        /\ table_exists
        /\ table = OkSegments(writes)

C5_Witness ==
    /\ if_exists_opt = "replace"
    /\ prior.exists
    /\ TableRows(prior.rows) > 0
    /\ Len(writes) = 2
    /\ writes[2].ok
    /\ writes[1].rows > 0
    /\ writes[2].rows > 0
    /\ Len(table) = 2

----------------------------------------------------------------------------
(* C8: a failed write ends the run: it is the last write call, no batch is *)
(* read after it, no progress update and no success follow, the failure    *)
(* message is shown, and the chunks written before it stay in the table.   *)

C8_WriteFailureAborts ==
    \A k \in DOMAIN writes :
        ~writes[k].ok =>
            /\ k = Len(writes)
            /\ pc = "done"
            /\ terminal.kind = "failure"
            /\ next_batch = writes[k].iter
            /\ Len(progress) = k - 1
            /\ \A i \in 1..(k - 1) : writes[i].ok /\ writes[i].iter # writes[k].iter
            /\ RunPart(table) = OkSegments(writes)

C8_Witness ==
    /\ Len(writes) = 2
    /\ writes[1].ok
    /\ writes[1].rows > 0
    /\ ~writes[2].ok
    /\ Len(progress) = 1
    /\ terminal = ErrorEvent("WriteError")
    /\ TableRows(RunPart(table)) = writes[1].rows

----------------------------------------------------------------------------
(* C2 as stated: a run that ends with success has read batches whose row   *)
(* counts sum to the count it reports, and that count is the row count of  *)
(* the destination table, whatever the policy and the table before.  The   *)
(* claim is taken here in its plainest case, a destination table that is   *)
(* not there before the run, so that every row of the table is a row this  *)
(* run wrote.                                                              *)

C2_Original ==
    (terminal.kind = "success" /\ ~prior.exists) =>
        /\ next_batch = Len(batches)
        /\ SumRows(batches) = terminal.rows
        /\ terminal.rows = TableRows(table)

----------------------------------------------------------------------------
(* C4 as stated: after a 'replace' run that ends with success the table    *)
(* holds as many rows as the source, whatever it held before.  The claim   *)
(* is taken here for the sources that yield at least one batch, the runs   *)
(* in which the first write replaces the table.                            *)

C4_Original ==
    (if_exists_opt = "replace" /\ terminal.kind = "success" /\ batches # << >>) =>
        TableRows(table) = SumRows(batches)

----------------------------------------------------------------------------
(* C6 as stated: one progress update per chunk written and none for a      *)
(* failed write; each update carries the sum of the row counts of the      *)
(* chunks written so far; the count never decreases.                       *)

C6_Original ==
    /\ Len(progress) <= NumOk(writes)
    /\ NumOk(writes) <= Len(progress) + 1
    /\ pc \in {"read", "normalize", "done"} => Len(progress) = NumOk(writes)
    /\ \A i \in DOMAIN progress :
          /\ writes[i].ok
          /\ progress[i].rows = WrittenRows(writes, i)
          /\ i > 1 => progress[i - 1].rows <= progress[i].rows

----------------------------------------------------------------------------
(* C7 as stated: once captured the estimate does not change; it is 1 when  *)
(* the source reports zero rows, hence at least 1 at every progress update *)
(* and no progress fraction is computed with a zero divisor.               *)

InLoop == pc \in {"read", "normalize", "write", "report"}

C7_Original ==
    /\ InLoop => total_rows = (IF num_rows = 0 THEN 1 ELSE num_rows)
    /\ \A i \in DOMAIN progress :
          /\ progress[i].total >= 1
          /\ progress[i].total = total_rows
          /\ progress[i].bar => progress[i].total # 0

----------------------------------------------------------------------------
(* C9 as stated: with any connection field or the table name left empty    *)
(* the run does not start: a configuration error is shown and no I/O call  *)
(* is made.  The claim is taken for an import started with a source        *)
(* chosen, so that the missing field is the only thing wrong.              *)

C9_Original ==
    (missing # {} /\ source_kind # "none") =>
        /\ io = {}
        /\ pc # "idle" => terminal.kind = "config_error"

----------------------------------------------------------------------------
(* C10 as stated: the failure message carries the number of rows committed *)
(* before the failure, the value of rows_processed at that time.           *)

C10_Original ==
    terminal.kind = "failure" =>
        /\ terminal.exc # "none"
        /\ terminal.rows = rows_processed

----------------------------------------------------------------------------
(* C11 as amended: a run whose source is missing, or whose source          *)
(* pq.ParquetFile cannot open, ends at once with an error message: no      *)
(* batch is read, no write is attempted, no progress is reported and the   *)
(* destination table is as it was.  src/app.py has not connected to the    *)
(* database by then; PROJECT_FILES['app.py'] has, to enable postgis.       *)

SourceUnavailable ==
    \/ terminal.kind = "no_file"
    \/ terminal.kind = "failure" /\ terminal.exc = "ArrowInvalid"

C11_OpenFailureWritesNothing ==
    SourceUnavailable =>
        /\ pc = "done"
        /\ next_batch = 0
        /\ "read_batch" \notin io
        /\ writes = << >>
        /\ progress = << >>
        /\ table_exists = prior.exists
        /\ table = prior.rows
        /\ version = "app" => ("db_connect" \notin io /\ ~postgis)

C11_Witness ==
    /\ version = "recreate"
    /\ terminal.kind = "failure"
    /\ terminal.exc = "ArrowInvalid"
    /\ prior.exists
    /\ table = prior.rows
    /\ postgis

\* C11 as stated: nothing of the destination store is modified (the
\* database had no postgis extension when the run started)
C11_Original ==
    SourceUnavailable =>
        /\ writes = << >>
        /\ table_exists = prior.exists
        /\ table = prior.rows
        /\ ~postgis

----------------------------------------------------------------------------
(* C12 as stated: a probe that fails never ends the run, a failing rewind  *)
(* included: the descriptor stays unknown, the source is opened for        *)
(* streaming, and every chunk of a batch with a column named 'geometry'    *)
(* is marked spatial and goes through the spatial write.                   *)

ProbeFailed ==
    /\ version = "recreate"
    /\ "probe_read" \in io
    /\ pc # "probe"
    /\ ~is_spatial_file

C12_Original ==
    ProbeFailed =>
        /\ detected_geometry_col = "none"
        /\ detected_crs = "none"
        /\ pc = "done" => "open_source" \in io
        /\ \A i \in DOMAIN writes :
              batches[writes[i].iter].enc # "none" =>
                  (writes[i].spatial /\ writes[i].path = "to_postgis")

----------------------------------------------------------------------------
(* C13 as stated: geometry bytes that do not decode end the run: the       *)
(* decoder's exception is the one reported, it is not caught and no other  *)
(* decode path is tried; no row of that batch is written and no later      *)
(* batch is read.                                                          *)

\* the current batch has malformed geometry bytes and has been normalized
MalformedDecoded ==
    /\ df_chunk # 0
    /\ batches[df_chunk].enc = "malformed"
    /\ pc # "normalize"

C13_Original ==
    MalformedDecoded =>
        /\ pc = "done"
        /\ terminal.kind = "failure"
        /\ terminal.exc = DecodeError
        /\ ~decode_fallback
        /\ next_batch = df_chunk
        /\ \A i \in DOMAIN writes : writes[i].iter # df_chunk

----------------------------------------------------------------------------
(* C14 as amended: every chunk written through the spatial write carries a *)
(* reference system: the one the probe detected when the chunk was built   *)
(* from the probe's geometry column and the probe detected one, EPSG:4326  *)
(* in every other case, among them a chunk built by the 'geometry'-name    *)
(* fallback whatever the probe detected; a plain chunk carries none.       *)

BuiltFromProbeColumn ==
    version = "recreate" /\ is_spatial_file /\ detected_geometry_col = "geometry"

----------------------------------------------------------------------------
(* C15 as amended: once the probe has set a descriptor, a batch that lacks *)
(* the named column and has no column named 'geometry' is not spatial: the *)
(* chunk is the batch as read, it goes through the plain write and         *)
(* normalizing it raises nothing.  A batch that lacks the named column but *)
(* has a column named 'geometry' is marked spatial by the fallback, which  *)
(* decodes that column or ends the run.                                    *)

\* the probe named a column and the current batch, already normalized, lacks it
LacksProbeColumn ==
    /\ version = "recreate"
    /\ is_spatial_file
    /\ detected_geometry_col = "geom"
    /\ df_chunk # 0
    /\ pc # "normalize"

\* the write call made for the current batch, if any
WritesOfCurrent == {i \in DOMAIN writes : writes[i].iter = df_chunk}

----------------------------------------------------------------------------
(* C16: a chunk goes through the spatial write exactly when the normalizer *)
(* marked it spatial and through the plain write otherwise; a batch with   *)
(* no geometry column (neither the probe's nor one named 'geometry') is    *)
(* marked non-spatial and the chunk written for it is the batch as read.   *)

C16_PathFollowsFlag ==
    /\ \A i \in DOMAIN writes :
          /\ writes[i].path = (IF writes[i].spatial THEN "to_postgis" ELSE "to_sql")
          /\ writes[i].spatial = (batches[writes[i].iter].enc # "none")
          /\ batches[writes[i].iter].enc = "none" =>
                (writes[i].chunk = writes[i].iter /\ writes[i].crs = "none")
    /\ (pc \in {"write", "report"} /\ batches[df_chunk].enc = "none") =>
          (~is_spatial /\ chunk_to_write = df_chunk)
    /\ pc = "report" =>
          (writes[Len(writes)].iter = df_chunk /\ writes[Len(writes)].spatial = is_spatial)

C16_Witness ==
    /\ version = "recreate"
    /\ is_spatial_file
    /\ Len(writes) = 2
    /\ \A i \in DOMAIN writes :
          /\ writes[i].ok
          /\ writes[i].rows > 0
          /\ ~writes[i].spatial
          /\ writes[i].path = "to_sql"
          /\ writes[i].chunk = i

----------------------------------------------------------------------------
(* C17 as stated: when the probe has read from a source that has seek, a   *)
(* rewind to position 0 has been attempted by the time the streaming step  *)
(* opens the source, whether the probe succeeded or failed.                *)

C17_Original ==
    (version = "recreate" /\ HasSeek(source_kind) /\ "probe_read" \in io
        /\ "open_source" \in io) =>
            seek_calls >= 1

----------------------------------------------------------------------------
(* C18 as stated: the steps of the loop run one after the other in source  *)
(* order: a batch is read only when every batch read before it has been    *)
(* normalized, written and reported; the k-th write call is the one of the *)
(* k-th batch; no batch is written by two write calls.  The last part is   *)
(* taken for the write calls that carry rows.                              *)

C18_StepOrder ==
    /\ \A i \in DOMAIN writes : writes[i].iter = i
    /\ \A i \in 1..(Len(writes) - 1) : writes[i].ok
    /\ pc = "read" =>
          (Len(writes) = next_batch /\ NumOk(writes) = next_batch
              /\ Len(progress) = next_batch)
    /\ pc \in {"normalize", "write"} =>
          (df_chunk = next_batch /\ Len(writes) = next_batch - 1
              /\ Len(progress) = next_batch - 1)
    /\ pc = "report" =>
          (df_chunk = next_batch /\ Len(writes) = next_batch
              /\ Len(progress) = next_batch - 1)
    /\ Len(writes) <= next_batch
    /\ Len(progress) <= Len(writes)

C18_Original ==
    /\ C18_StepOrder
    /\ \A i, j \in DOMAIN writes :
          (i # j /\ writes[i].ok /\ writes[j].ok /\ writes[i].rows > 0) =>
              writes[i].chunk # writes[j].chunk

----------------------------------------------------------------------------
(* C19 as stated: a started run that is over has shown one terminal        *)
(* message: success exactly when every batch of the source was written,    *)
(* failure exactly when a step raised; nothing is read, written or         *)
(* reported after it.  The claim is taken for a source of at least one     *)
(* batch; a success is held against the batches that have rows.            *)

\* batch k was written: a write call that returned carried its rows
BatchWritten(k) == \E i \in DOMAIN writes : writes[i].ok /\ writes[i].chunk = k

C19_Original ==
    (pc = "done" /\ Started /\ batches # << >>) =>
        /\ terminal.kind \in {"success", "failure"}
        /\ terminal.kind = "success" =>
              (\A k \in DOMAIN batches : batches[k].rows > 0 => BatchWritten(k))
        /\ (\A k \in DOMAIN batches : BatchWritten(k)) => terminal.kind = "success"
        /\ terminal.kind = "failure" <=> terminal.exc # "none"

\* every call of the run returns or raises in the end
FairSpec == Spec /\ WF_vars(Next)

\* the part of C19 the stale chunk does not touch: a run ends, with one
\* terminal message, and a run that is over takes no further step
C19_Terminates ==
    /\ <>(pc = "done" /\ terminal.kind # "none")
    /\ [][pc # "done" /\ terminal.kind = "none"]_vars

----------------------------------------------------------------------------
(* C20 as stated: the rows a write call carries are the rows of the batch  *)
(* read in the same iteration, whatever the encoding of its 'geometry'     *)
(* column; the rows of an earlier batch are never written again.  Stated   *)
(* for the write calls that carry rows.                                    *)

C20_Original ==
    \A i \in DOMAIN writes : writes[i].rows > 0 => writes[i].chunk = writes[i].iter

====
